---- MODULE Spec2Model ----
(***************************************************************************)
(* A model of lbuild's typed options (lbuild/option.py) and of its         *)
(* command-line driver (lbuild/__main__.py).                               *)
(*                                                                         *)
(* Text is a sequence of one-character strings, so that lower(), split(),  *)
(* sort() and int(s, 0) are computed character by character.  A Python     *)
(* value is a tagged record: None, a bool, an int, a str or an enumeration *)
(* member.                                                                 *)
(***************************************************************************)
EXTENDS Integers, Sequences, FiniteSets, TLC

VARIABLES
    opt,        \* the option object under test (kind "NoOption" before construction)
    lastOp,     \* the last operation applied to it: its input, the value before and after, the error raised
    pc,         \* position of main()/run()/get_modules() in lbuild/__main__.py
    args,       \* the parsed command line (argparse namespace)
    config,     \* the parsed configuration: its selected_modules
    frame,      \* get_modules' activation: its selected_modules argument and where it returns to
    calls,      \* the calls made on the parser and its collaborators, in order
    logfiles,   \* the build log files written, in order
    exc,        \* the exception that left run(), "none" if none
    exitCode,   \* the process exit status, -1 while running
    buildlist,  \* build_modules' ordered list of modules to build
    buildpos,   \* the module being built and the next operation of its build function
    buildlog,   \* the build log: one entry per output file, in the order they were made
    buildexc    \* how build_modules ended: "running", "none" or the exception raised

optVars == <<opt, lastOp>>
mainVars == <<pc, args, config, frame, calls, logfiles, exc, exitCode>>
buildVars == <<buildlist, buildpos, buildlog, buildexc>>
vars ==
    <<opt, lastOp, pc, args, config, frame, calls, logfiles, exc, exitCode,
      buildlist, buildpos, buildlog, buildexc>>

(***************************************************************************)
(* Bounds.                                                                 *)
(***************************************************************************)
\* The largest integer whose literals are assigned to a numeric option.
MaxNum == 10
\* The largest number of names of a long enumeration.
MaxValues == 8
\* The largest number of modules of a build list.
MaxBuild == 3

(***************************************************************************)
(* Characters and text.                                                    *)
(***************************************************************************)
\* The printable ASCII characters, code 32 to 126, in code order (the three that
\* a TLA+ string cannot hold as they are stand under a name; no input uses them).
Ascii ==
    <<" ", "!", "<quote>", "#", "$", "%", "&", "'", "(", ")", "*", "+", ",", "-", ".", "/",
      "0", "1", "2", "3", "4", "5", "6", "7", "8", "9", ":", ";", "<", "=", ">", "?",
      "@", "A", "B", "C", "D", "E", "F", "G", "H", "I", "J", "K", "L", "M", "N", "O",
      "P", "Q", "R", "S", "T", "U", "V", "W", "X", "Y", "Z", "[", "<backslash>", "]", "^", "_",
      "<backtick>", "a", "b", "c", "d", "e", "f", "g", "h", "i", "j", "k", "l", "m", "n", "o",
      "p", "q", "r", "s", "t", "u", "v", "w", "x", "y", "z", "{", "|", "}", "~">>

\* ord(c), tabulated once.
OrdTable == [c \in {Ascii[i] : i \in 1..Len(Ascii)} |-> 31 + (CHOOSE i \in 1..Len(Ascii) : Ascii[i] = c)]

Ord(c) == OrdTable[c]

Chr(n) == Ascii[n - 31]

\* str.lower() on one character: 'A'..'Z' (65..90) move up by 32.
LowerChar(c) == IF Ord(c) \in 65..90 THEN Chr(Ord(c) + 32) ELSE c

Lower(s) == [i \in 1..Len(s) |-> LowerChar(s[i])]

\* Python's ordering of str: by code point, a proper prefix first.
StrLess(a, b) ==
    \E k \in 1..(Len(b)) :
        /\ \A j \in 1..(k - 1) : j <= Len(a) /\ a[j] = b[j]
        /\ k - 1 <= Len(a)
        /\ \/ k = Len(a) + 1
           \/ k <= Len(a) /\ Ord(a[k]) < Ord(b[k])

\* list.sort() of a set of distinct names.
RECURSIVE SortNames(_)
SortNames(S) ==
    IF S = {} THEN <<>>
    ELSE LET m == CHOOSE x \in S : \A y \in S \ {x} : StrLess(x, y)
         IN <<m>> \o SortNames(S \ {m})

\* str.split(sep): the pieces between the occurrences of sep.
RECURSIVE Split(_, _)
Split(s, sep) ==
    IF \A i \in 1..Len(s) : s[i] # sep THEN <<s>>
    ELSE LET k == CHOOSE i \in 1..Len(s) :
                      s[i] = sep /\ \A j \in 1..(i - 1) : s[j] # sep
         IN <<SubSeq(s, 1, k - 1)>> \o Split(SubSeq(s, k + 1, Len(s)), sep)

\* str.strip() (the only white space of the alphabet is the blank).
Strip(s) ==
    LET idx == {i \in 1..Len(s) : s[i] # " "}
    IN IF idx = {} THEN <<>>
       ELSE SubSeq(s, CHOOSE i \in idx : \A j \in idx : i <= j,
                      CHOOSE i \in idx : \A j \in idx : i >= j)

(***************************************************************************)
(* Python values.                                                          *)
(***************************************************************************)
None == [t |-> "none"]
BoolV(b) == [t |-> "bool", b |-> b]
IntV(i) == [t |-> "int", i |-> i]
StrV(s) == [t |-> "str", s |-> s]
\* A member of an enum.Enum class: it has a .name and a .value.
Member(n, v) == [t |-> "member", name |-> n, value |-> v]

DigitChars == <<"0", "1", "2", "3", "4", "5", "6", "7", "8", "9", "a", "b", "c", "d", "e", "f">>

\* The digits of n >= 0 in the given base, most significant first.
RECURSIVE Digits(_, _)
Digits(n, base) ==
    IF n < base THEN <<DigitChars[n + 1]>>
    ELSE Digits(n \div base, base) \o <<DigitChars[(n % base) + 1]>>

\* str(n) of an int.
Dec(n) == IF n < 0 THEN <<"-">> \o Digits(-n, 10) ELSE Digits(n, 10)
\* hex(n), oct(n), bin(n) of an int n >= 0.
Hex(n) == <<"0", "x">> \o Digits(n, 16)
Oct(n) == <<"0", "o">> \o Digits(n, 8)
Bin(n) == <<"0", "b">> \o Digits(n, 2)

\* str(value), as BooleanOption.as_boolean takes it.
StrOf(v) ==
    CASE v.t = "none" -> <<"N", "o", "n", "e">>
      [] v.t = "bool" -> IF v.b THEN <<"T", "r", "u", "e">> ELSE <<"F", "a", "l", "s", "e">>
      [] v.t = "int" -> Dec(v.i)
      [] v.t = "str" -> v.s
      [] v.t = "member" -> <<"E", ".">> \o v.name

(***************************************************************************)
(* int(text, 0): Python's integer literal syntax.                          *)
(***************************************************************************)
\* The value of a digit character in any base up to 16; 36 for no digit.
DigitTable ==
    [c \in {Ascii[i] : i \in 1..Len(Ascii)} |->
        LET l == LowerChar(c)
        IN IF \E i \in 1..Len(DigitChars) : DigitChars[i] = l
           THEN (CHOOSE i \in 1..Len(DigitChars) : DigitChars[i] = l) - 1
           ELSE 36]

DigitVal(c) == DigitTable[c]

RECURSIVE FoldDigits(_, _, _)
FoldDigits(ds, base, acc) ==
    IF ds = <<>> THEN acc
    ELSE FoldDigits(Tail(ds), base, acc * base + DigitVal(Head(ds)))

\* The digits of an integer literal in the given base, after its sign and
\* prefix: single underscores between digits (and right after a prefix), at
\* least one digit, every digit below the base, and no leading zero on a
\* non-zero literal without prefix.  ok is FALSE where int() raises ValueError.
ParseDigits(body, base, prefixed) ==
    LET ds == SelectSeq(body, LAMBDA c : c # "_")
    IN IF /\ \A i \in 1..Len(body) :
                body[i] = "_" => /\ i < Len(body)
                                 /\ body[i + 1] # "_"
                                 /\ (i > 1 \/ prefixed)
          /\ ds # <<>>
          /\ \A i \in 1..Len(ds) : DigitVal(ds[i]) < base
          /\ (~prefixed /\ ds[1] = "0") => \A i \in 1..Len(ds) : ds[i] = "0"
       THEN [ok |-> TRUE, val |-> FoldDigits(ds, base, 0)]
       ELSE [ok |-> FALSE, val |-> 0]

\* The base a prefix letter selects.
PrefixBase(c) ==
    CASE LowerChar(c) = "x" -> 16
      [] LowerChar(c) = "o" -> 8
      [] LowerChar(c) = "b" -> 2
      [] OTHER -> 10

\* An unsigned literal: the base is taken from the prefix 0x / 0o / 0b (either
\* case) and is 10 without one.
ParseMagnitude(r) ==
    IF Len(r) >= 2 /\ r[1] = "0" /\ PrefixBase(r[2]) # 10
    THEN ParseDigits(SubSeq(r, 3, Len(r)), PrefixBase(r[2]), TRUE)
    ELSE ParseDigits(r, 10, FALSE)

Signed(negative, p) == [ok |-> p.ok, val |-> IF negative THEN -p.val ELSE p.val]

\* int(s, 0) on the text s, as the interpreter does: white space stripped, an
\* optional sign, then the literal.
ParseStripped(st) ==
    IF st # <<>> /\ st[1] \in {"+", "-"}
    THEN Signed(st[1] = "-", ParseMagnitude(Tail(st)))
    ELSE ParseMagnitude(st)

\* int(s): base 10 whatever the prefix.
IntBase10(s) ==
    LET st == Strip(s)
    IN IF st # <<>> /\ st[1] \in {"+", "-"}
       THEN Signed(st[1] = "-", ParseDigits(Tail(st), 10, TRUE))
       ELSE ParseDigits(st, 10, TRUE)

IntBase0(s) == ParseStripped(Strip(s))

(***************************************************************************)
(* lbuild/option.py: the option classes.                                   *)
(***************************************************************************)
\* An option object.  repository and module are the parents it is attached to
\* (the repository's name, the module's fullname), minimum and maximum are a
\* NumericOption's, _enumeration an EnumerationOption's: the members of its enum
\* class in definition order.
NoOption ==
    [kind |-> "NoOption", name |-> <<>>, repository |-> None, module |-> None,
     minimum |-> None, maximum |-> None, _enumeration |-> <<>>, _value |-> None]

Returned(v) == [err |-> "none", val |-> v]
Raised(e) == [err |-> e, val |-> None]

\* Option.__init__ taking any name.
Option_init_ColonAllowed(kind, name, default) ==
    Returned([NoOption EXCEPT !.kind = kind, !.name = name, !._value = default])

\* Option.__init__: a name with a colon is refused, _value starts as default.
Option_init(kind, name, default) ==
    IF \E i \in 1..Len(name) : name[i] = ":"
    THEN Raised("BlobException")
    ELSE Returned([NoOption EXCEPT !.kind = kind, !.name = name, !._value = default])

\* Option.value setter: the base class stores anything.
Option_set(o, value) == Returned([o EXCEPT !._value = value])

TrueWords == {<<"t", "r", "u", "e">>, <<"y", "e", "s">>, <<"1">>}
FalseWords == {<<"f", "a", "l", "s", "e">>, <<"n", "o">>, <<"0">>}

\* as_boolean comparing str(value) as it is, without lower().
as_boolean_CaseSensitive(value) ==
    IF value.t = "none" THEN Returned(value)
    ELSE IF value.t = "bool" THEN Returned(value)
    ELSE IF StrOf(value) \in TrueWords THEN Returned(BoolV(TRUE))
    ELSE IF StrOf(value) \in FalseWords THEN Returned(BoolV(FALSE))
    ELSE Raised("BlobException")

\* BooleanOption.as_boolean
as_boolean(value) ==
    IF value.t = "none" THEN Returned(value)
    ELSE IF value.t = "bool" THEN Returned(value)
    ELSE IF Lower(StrOf(value)) \in TrueWords THEN Returned(BoolV(TRUE))
    ELSE IF Lower(StrOf(value)) \in FalseWords THEN Returned(BoolV(FALSE))
    ELSE Raised("BlobException")

\* BooleanOption.value setter
BooleanOption_set(o, value) ==
    LET r == as_boolean(value)
    IN IF r.err # "none" THEN [err |-> r.err, val |-> o]
       ELSE Returned([o EXCEPT !._value = r.val])

\* BooleanOption.__init__
BooleanOption_init(name, default) ==
    LET b == Option_init("BooleanOption", name, None)
    IN IF b.err # "none" THEN b
       ELSE IF default.t # "none" THEN BooleanOption_set(b.val, default)
       ELSE b

\* NumericOption.as_numeric_value: None and numbers (a bool is an int) pass as
\* they are, text goes through int(value, 0), whose ValueError is swallowed.
as_numeric_value(value) ==
    IF value.t = "none" THEN Returned(value)
    ELSE IF value.t \in {"int", "bool"} THEN Returned(value)
    ELSE IF value.t = "str" /\ IntBase0(value.s).ok THEN Returned(IntV(IntBase0(value.s).val))
    ELSE Raised("BlobException")

\* The integer a number compares as.
NumOf(v) == IF v.t = "bool" THEN (IF v.b THEN 1 ELSE 0) ELSE v.i

\* NumericOption.value setter.  Both comparisons are evaluated (None on their
\* left is a TypeError), but the BlobException each branch builds is dropped,
\* never raised, so neither branch has an effect.
NumericOption_set(o, value) ==
    LET r == as_numeric_value(value)
        belowMinimum == o.minimum.t # "none" /\ NumOf(r.val) < NumOf(o.minimum)
        belowMaximum == o.maximum.t # "none" /\ NumOf(r.val) < NumOf(o.maximum)
        stored == [o EXCEPT !._value = r.val]
    IN IF r.err # "none" THEN [err |-> r.err, val |-> o]
       ELSE IF r.val.t = "none" /\ (o.minimum.t # "none" \/ o.maximum.t # "none")
       THEN [err |-> "TypeError", val |-> o]
       ELSE IF belowMinimum THEN Returned(stored)
       ELSE IF belowMaximum THEN Returned(stored)
       ELSE Returned(stored)

\* NumericOption.__init__
NumericOption_init(name, minimum, maximum, default) ==
    LET b == Option_init("NumericOption", name, None)
        o == [b.val EXCEPT !.minimum = minimum, !.maximum = maximum]
    IN IF b.err # "none" THEN b
       ELSE IF default.t # "none" THEN NumericOption_set(o, default)
       ELSE Returned(o)

\* enum.Enum: the members of a class given as (name, value) pairs in definition
\* order.  A pair whose value an earlier pair has is an alias of that member.
IsCanonical(e, i) == \A j \in 1..(i - 1) : e[j].value # e[i].value

\* Iterating an enum class: its members in definition order, aliases left out.
EnumIter(e) == SelectSeq([i \in 1..Len(e) |-> IF IsCanonical(e, i) THEN e[i] ELSE None],
                         LAMBDA m : m.t = "member")

\* cls[key]: the member of that name (for an alias, the member it stands for);
\* KeyError when key is no name of the class.
EnumLookup(e, key) ==
    IF key.t = "str" /\ \E i \in 1..Len(e) : e[i].name = key.s
    THEN LET i == CHOOSE i \in 1..Len(e) : e[i].name = key.s
             c == CHOOSE j \in 1..Len(e) : e[j].value = e[i].value /\ IsCanonical(e, j)
         IN Returned(e[c])
    ELSE Raised("KeyError")

\* The enum class EnumerationOption.__init__ ends with.  An Enum class is kept;
\* a list or tuple of unique names becomes a class whose values equal the
\* names; anything else goes to enum.Enum(name, enumeration) as it is: a
\* mapping gives its (name, value) pairs, a list of names counts them from 1
\* and fails with TypeError on a repeated name.
MakeEnumeration(enumeration) ==
    LET n == Len(enumeration.items)
        unique == \A i, j \in 1..n : enumeration.items[i] = enumeration.items[j] => i = j
    IN IF enumeration.form = "class" THEN Returned(enumeration.items)
       ELSE IF enumeration.form = "list" /\ unique
       THEN Returned([i \in 1..n |-> Member(enumeration.items[i].s, enumeration.items[i])])
       ELSE IF enumeration.form = "list" THEN Raised("TypeError")
       ELSE Returned(enumeration.items)

\* EnumerationOption.as_enumeration: value.name if value has one, else value.
as_enumeration(o, value) ==
    IF value.t = "member"
    THEN EnumLookup(o._enumeration, StrV(value.name))
    ELSE EnumLookup(o._enumeration, value)

\* EnumerationOption.value setter
EnumerationOption_set(o, value) ==
    LET r == as_enumeration(o, value)
    IN IF r.err # "none" THEN [err |-> r.err, val |-> o]
       ELSE Returned([o EXCEPT !._value = r.val])

\* The value getter returning the member instead of its value.
EnumerationOption_value_Member(o) == o._value

\* EnumerationOption.value getter
EnumerationOption_value(o) == IF o._value.t = "none" THEN None ELSE o._value.value

\* EnumerationOption.values
EnumerationOption_values(o) ==
    LET it == EnumIter(o._enumeration)
    IN SortNames({it[i].name : i \in 1..Len(it)})

\* EnumerationOption.__init__
EnumerationOption_init(name, enumeration, default) ==
    LET b == Option_init("EnumerationOption", name, None)
        e == MakeEnumeration(enumeration)
        o == [b.val EXCEPT !._enumeration = e.val]
    IN IF b.err # "none" THEN b
       ELSE IF e.err # "none" THEN e
       ELSE IF default.t # "none" THEN EnumerationOption_set(o, default)
       ELSE Returned(o)

\* str.join: the parts with sep between them.
RECURSIVE Join(_, _)
Join(sep, parts) ==
    IF parts = <<>> THEN <<>>
    ELSE IF Len(parts) = 1 THEN parts[1]
    ELSE parts[1] \o sep \o Join(sep, Tail(parts))

\* value[0:stop]: a negative stop counts from the end.
SliceTo(value, stop) ==
    LET n == IF stop >= 0 THEN stop ELSE Len(value) + stop
    IN IF n <= 0 THEN <<>>
       ELSE IF n >= Len(value) THEN value
       ELSE SubSeq(value, 1, n)

Blanks(n) == [i \in 1..n |-> " "]

\* Option.fullname: the module's fullname or else the repository's name, then
\* the option's name, joined by ':'.
Option_fullname(o) ==
    IF o.module.t # "none" THEN Join(<<":">>, <<o.module.s, o.name>>)
    ELSE IF o.repository.t # "none" THEN Join(<<":">>, <<o.repository.s, o.name>>)
    ELSE Join(<<":">>, <<o.name>>)

\* Option.values
Option_values == <<"S", "t", "r", "i", "n", "g">>

\* BooleanOption.values
BooleanOption_values == <<"T", "r", "u", "e", ",", " ", "F", "a", "l", "s", "e">>

\* NumericOption.values
NumericOption_values(o) ==
    (IF o.minimum.t = "none" THEN <<"-", "I", "n", "f">> ELSE StrOf(o.minimum))
        \o <<" ", ".", ".", ".", " ">>
        \o (IF o.maximum.t = "none" THEN <<"+", "I", "n", "f">> ELSE StrOf(o.maximum))

\* EnumerationOption.values_hint
EnumerationOption_values_hint(o) == Join(<<",", " ">>, EnumerationOption_values(o))

\* values_hint() of an option of any class.
values_hint(o) ==
    CASE o.kind = "BooleanOption" -> BooleanOption_values
      [] o.kind = "NumericOption" -> NumericOption_values(o)
      [] o.kind = "EnumerationOption" -> EnumerationOption_values_hint(o)
      [] OTHER -> Option_values

\* The value property of an option of any class.
Option_value(o) == IF o.kind = "EnumerationOption" THEN EnumerationOption_value(o) ELSE o._value

\* Option.format taking every falsy value for unset.
Option_format_Truthy(o) ==
    IF Option_value(o) \in {None, BoolV(FALSE), IntV(0), StrV(<<>>)}
    THEN Option_fullname(o) \o <<" ", "=", " ", "[">> \o values_hint(o) \o <<"]">>
    ELSE Option_fullname(o) \o <<" ", "=", " ">> \o StrOf(o._value) \o <<" ", " ", "[">>
             \o values_hint(o) \o <<"]">>

\* Option.format
Option_format(o) ==
    IF Option_value(o).t = "none"
    THEN Option_fullname(o) \o <<" ", "=", " ", "[">> \o values_hint(o) \o <<"]">>
    ELSE Option_fullname(o) \o <<" ", "=", " ">> \o StrOf(o._value) \o <<" ", " ", "[">>
             \o values_hint(o) \o <<"]">>

\* textwrap.fill: the words, as many on a line as its width takes.
RECURSIVE FillLines(_, _, _)
FillLines(words, width, line) ==
    IF words = <<>> THEN <<line>>
    ELSE IF Len(line) + 1 + Len(Head(words)) <= width
    THEN FillLines(Tail(words), width, line \o <<" ">> \o Head(words))
    ELSE <<line>> \o FillLines(Tail(words), width, Head(words))

\* lbuild.filter.wordwrap: the text broken into lines of at most width
\* characters (no word of the texts formatted here is longer than a line).
wordwrap(value, width) ==
    LET words == SelectSeq(Split(value, " "), LAMBDA w : w # <<>>)
    IN IF words = <<>> THEN <<>>
       ELSE Join(<<"<newline>">>, FillLines(Tail(words), width, Head(words)))

\* lbuild.filter.indent: every line after the first starts level blanks in.
indent(value, level) == Join(<<"<newline>">> \o Blanks(level), Split(value, "<newline>"))

LINEWITH == 120

\* The value list of EnumerationOption.format for a set option: cut and marked
\* when it and the overhead exceed the line.
FormatValues(values, overhead) ==
    IF Len(values) + overhead > LINEWITH
    THEN SliceTo(values, LINEWITH - overhead - Len(<<" ", ".", ".", ".">>)) \o <<" ", ".", ".", ".">>
    ELSE values

\* EnumerationOption.format
EnumerationOption_format(o) ==
    LET name == Option_fullname(o) \o <<" ", "=", " ">>
        values == EnumerationOption_values_hint(o)
    IN IF o._value.t = "none"
       THEN name \o <<"[">> \o indent(wordwrap(values, LINEWITH - Len(name) - 1), Len(name) + 1)
                \o <<"]">>
       ELSE name \o StrOf(o._value.value) \o <<" ", " ", "[">>
                \o FormatValues(values, Len(name) + 4) \o <<"]">>

\* format() of an option of any class.
format(o) == IF o.kind = "EnumerationOption" THEN EnumerationOption_format(o) ELSE Option_format(o)

\* The value setter of an option of any class.
value_set(o, value) ==
    CASE o.kind = "BooleanOption" -> BooleanOption_set(o, value)
      [] o.kind = "NumericOption" -> NumericOption_set(o, value)
      [] o.kind = "EnumerationOption" -> EnumerationOption_set(o, value)
      [] OTHER -> Option_set(o, value)

(***************************************************************************)
(* The inputs the option operations are driven with.                       *)
(***************************************************************************)
UpperChar(c) == IF Ord(c) \in 97..122 THEN Chr(Ord(c) - 32) ELSE c

\* A word in every mix of letter case.
CaseVariants(w) ==
    {[i \in 1..Len(w) |-> IF i \in U THEN UpperChar(w[i]) ELSE w[i]] : U \in SUBSET (1..Len(w))}

OptionNames == {<<"f", "o", "o">>, <<"a", ":", "b">>}

BoolWords ==
    TrueWords \cup FalseWords \cup
    {<<"o", "n">>, <<"o", "f", "f">>, <<"t", "r", "u">>, <<"y">>, <<"n">>, <<"2">>,
     <<"1", "0">>, <<>>, <<" ", "1">>, <<"n", "o", "n", "e">>, <<"t", "r", "u", "e", "0">>}

BoolLiterals == UNION {CaseVariants(w) : w \in BoolWords}

BoolInputs ==
    {None, BoolV(TRUE), BoolV(FALSE), IntV(0), IntV(1), IntV(2)}
        \cup {StrV(s) : s \in BoolLiterals}

\* The literals of n in base 16, 8 and 2, prefix and digits in either case.
PrefixedLiterals(n) == UNION {CaseVariants(w) : w \in {Hex(n), Oct(n), Bin(n)}}

\* Text that is no integer literal.
NonLiterals ==
    {<<>>, <<"a", "b", "c">>, <<"0", "x">>, <<"1", ".", "5">>, <<"1", "2", "a">>,
     <<"0", "1", "0">>, <<"0", "b", "2">>, <<"0", "o", "8">>, <<"0", "x", "g">>,
     <<"1", "_">>, <<"_", "1">>, <<"1", "_", "_", "0">>, <<"-">>, <<"1", " ", "0">>}

\* Integer literals with a sign, white space, an underscore or leading zeros.
OtherLiterals ==
    {<<" ", "7", " ">>, <<"-", "3">>, <<"+", "4">>, <<"1", "_", "0">>, <<"0", "0">>,
     <<"0", "x", "1", "F">>}

NumInputs ==
    {None, BoolV(TRUE)}
        \cup {IntV(n) : n \in -1..MaxNum}
        \cup {StrV(Dec(n)) : n \in 0..MaxNum}
        \cup {StrV(s) : s \in UNION {PrefixedLiterals(n) : n \in 0..MaxNum}}
        \cup {StrV(s) : s \in NonLiterals \cup OtherLiterals}

NumBounds == {<<None, None>>, <<IntV(3), IntV(8)>>}

EnumNames == {<<"a">>, <<"b">>, <<"c">>, <<"a", "b">>, <<"B">>}

\* The enumerations options are declared with: lists of names, an Enum class
\* or mapping with values of its own, one with an alias, a list that repeats.
LongName(i) == <<"s", "t", "m", "3", "2", "f", "4", "0", "7", "v", "g", "t">> \o Dec(i)

\* A list of k long names, the last declared first.
LongNames(k) == [i \in 1..k |-> StrV(LongName(k + 1 - i))]

Enumerations ==
    {[form |-> "list", items |-> LongNames(k)] : k \in (MaxValues - 2)..MaxValues} \cup
    {[form |-> "list", items |-> <<StrV(<<"b">>), StrV(<<"a">>)>>],
     [form |-> "list", items |-> <<StrV(<<"c">>), StrV(<<"a", "b">>), StrV(<<"B">>), StrV(<<"a">>)>>],
     [form |-> "list", items |-> <<StrV(<<"a">>), StrV(<<"a">>)>>],
     [form |-> "class", items |-> <<Member(<<"b">>, IntV(1)), Member(<<"a">>, IntV(2))>>],
     [form |-> "dict", items |-> <<Member(<<"c">>, IntV(1)), Member(<<"a">>, IntV(2)),
                                   Member(<<"b">>, IntV(1))>>]}

EnumInputs ==
    {None, IntV(1), Member(<<"a">>, IntV(2)), Member(<<"b">>, IntV(7)), Member(<<"z">>, IntV(1)),
     Member(<<"a">>, StrV(<<"a">>))}
        \cup {StrV(n) : n \in EnumNames}

(***************************************************************************)
(* The option under test: construction and assignment.                     *)
(***************************************************************************)
\* The arguments of a constructor call besides the default.
Ctor(name, minimum, maximum, enumeration) ==
    [name |-> name, minimum |-> minimum, maximum |-> maximum, enumeration |-> enumeration]

NoEnumeration == [form |-> "none", items |-> <<>>]

NoCtor == Ctor(<<>>, None, None, NoEnumeration)

NoOp ==
    [op |-> "none", kind |-> "NoOption", ctor |-> NoCtor, arg |-> None, before |-> None,
     after |-> None, err |-> "none"]

\* The object a constructor call leaves: none when it raises.
Constructed(r) == IF r.err = "none" THEN r.val ELSE NoOption

\* The record of a constructor call with the arguments c and default, r being
\* what the constructor did.
InitOp(kind, c, r, default) ==
    [op |-> "init", kind |-> kind, ctor |-> c, arg |-> default, before |-> None,
     after |-> Constructed(r)._value, err |-> r.err]

\* The record of option.value = v on the option o, r being what the setter did.
SetOp(o, r, v) ==
    [op |-> "set", kind |-> o.kind, ctor |-> NoCtor, arg |-> v, before |-> o._value,
     after |-> r.val._value, err |-> r.err]

NewOption ==
    \E name \in OptionNames, default \in {None, StrV(<<"x">>)} :
        /\ opt.kind = "NoOption"
        /\ opt' = Constructed(Option_init("Option", name, default))
        /\ lastOp' = InitOp("Option", Ctor(name, None, None, NoEnumeration),
                            Option_init("Option", name, default), default)
        /\ UNCHANGED <<mainVars, buildVars>>

NewBooleanOption ==
    \E name \in OptionNames,
       default \in {None, BoolV(FALSE), StrV(<<"Y", "e", "s">>), StrV(<<"o", "n">>)} :
        /\ opt.kind = "NoOption"
        /\ opt' = Constructed(BooleanOption_init(name, default))
        /\ lastOp' = InitOp("BooleanOption", Ctor(name, None, None, NoEnumeration),
                            BooleanOption_init(name, default), default)
        /\ UNCHANGED <<mainVars, buildVars>>

NewNumericOption ==
    \E name \in OptionNames, b \in NumBounds,
       default \in {None, IntV(5), IntV(9), StrV(<<"0", "x", "5">>), StrV(<<"a", "b", "c">>)} :
        /\ opt.kind = "NoOption"
        /\ opt' = Constructed(NumericOption_init(name, b[1], b[2], default))
        /\ lastOp' = InitOp("NumericOption", Ctor(name, b[1], b[2], NoEnumeration),
                            NumericOption_init(name, b[1], b[2], default), default)
        /\ UNCHANGED <<mainVars, buildVars>>

NewEnumerationOption ==
    \E name \in OptionNames, e \in Enumerations, default \in {None, StrV(<<"a">>), StrV(<<"z">>)} :
        /\ opt.kind = "NoOption"
        /\ opt' = Constructed(EnumerationOption_init(name, e, default))
        /\ lastOp' = InitOp("EnumerationOption", Ctor(name, None, None, e),
                            EnumerationOption_init(name, e, default), default)
        /\ UNCHANGED <<mainVars, buildVars>>

SetOption ==
    /\ opt.kind = "Option"
    /\ \E v \in {None, StrV(<<"x">>), StrV(<<"y">>), IntV(1)} :
        /\ opt' = Option_set(opt, v).val
        /\ lastOp' = SetOp(opt, Option_set(opt, v), v)
    /\ UNCHANGED <<mainVars, buildVars>>

SetBooleanOption ==
    /\ opt.kind = "BooleanOption"
    /\ \E v \in BoolInputs :
        /\ opt' = BooleanOption_set(opt, v).val
        /\ lastOp' = SetOp(opt, BooleanOption_set(opt, v), v)
    /\ UNCHANGED <<mainVars, buildVars>>

SetNumericOption ==
    /\ opt.kind = "NumericOption"
    /\ \E v \in NumInputs :
        /\ opt' = NumericOption_set(opt, v).val
        /\ lastOp' = SetOp(opt, NumericOption_set(opt, v), v)
    /\ UNCHANGED <<mainVars, buildVars>>

SetEnumerationOption ==
    /\ opt.kind = "EnumerationOption"
    /\ \E v \in EnumInputs :
        /\ opt' = EnumerationOption_set(opt, v).val
        /\ lastOp' = SetOp(opt, EnumerationOption_set(opt, v), v)
    /\ UNCHANGED <<mainVars, buildVars>>

(***************************************************************************)
(* The option under test: its parents and its formatted line.              *)
(***************************************************************************)
RepositoryNames == {<<"r", "e", "p", "o", "1">>}

\* The fullnames of the modules an option is added to.
ModuleNames == {<<"r", "e", "p", "o", "1", ":", "m", "o", "d", "u", "l", "e", "2">>, <<"r", "e", "p", "o", "1", ":", "m", "o", "d", "u", "l", "e", "2", ":", "s", "u", "b", "m", "o", "d", "u", "l", "e", "3", ":", "s", "u", "b", "s", "u", "b", "m", "o", "d", "u", "l", "e", "1">>}

\* The repository of the module of that fullname: its first segment.
RepositoryOf(module) == Split(module, ":")[1]

\* The values assigned before formatting.
FormatInputs ==
    {None, BoolV(FALSE), BoolV(TRUE), IntV(0), IntV(7), StrV(<<>>), StrV(<<"a">>),
     StrV(<<"b">>), StrV(<<"x">>), StrV(LongName(2))}

\* Repository.add_option: the option becomes an option of the repository.
Repository_add_option ==
    /\ opt.kind # "NoOption"
    /\ opt.repository = None
    /\ \E r \in RepositoryNames : opt' = [opt EXCEPT !.repository = StrV(r)]
    /\ lastOp' = [NoOp EXCEPT !.op = "add_option", !.kind = opt.kind]
    /\ UNCHANGED <<mainVars, buildVars>>

\* Module.add_option: the option becomes an option of the module.
Module_add_option ==
    /\ opt.kind # "NoOption"
    /\ opt.repository = None
    /\ \E m \in ModuleNames :
        opt' = [opt EXCEPT !.repository = StrV(RepositoryOf(m)), !.module = StrV(m)]
    /\ lastOp' = [NoOp EXCEPT !.op = "add_option", !.kind = opt.kind]
    /\ UNCHANGED <<mainVars, buildVars>>

\* option.value = v, on an option of any class.
AssignValue ==
    /\ opt.kind # "NoOption"
    /\ \E v \in FormatInputs :
        /\ opt' = value_set(opt, v).val
        /\ lastOp' = SetOp(opt, value_set(opt, v), v)
    /\ UNCHANGED <<mainVars, buildVars>>

\* option.format(): the line is returned, the option left as it is.
Format ==
    /\ opt.kind # "NoOption"
    /\ lastOp' = [NoOp EXCEPT !.op = "format", !.kind = opt.kind, !.before = opt._value,
                              !.after = StrV(format(opt))]
    /\ UNCHANGED opt
    /\ UNCHANGED <<mainVars, buildVars>>

(***************************************************************************)
(* lbuild/__main__.py: the command line driver.                            *)
(***************************************************************************)
ListV(l) == [t |-> "list", l |-> l]

\* The sub-commands argparse accepts, aliases included; "None" is args.action
\* when no sub-command is given.
Actions ==
    {"init", "update", "discover-repository", "repo", "discover-modules", "modules",
     "dependencies", "discover-module-options", "options", "discover-option", "option",
     "discover-option-values", "option-values", "build", "None"}

\* The exception classes of lbuild.exception that the driver names, and one
\* that is none of them.
Exceptions ==
    {"BlobException", "BlobArgumentException", "BlobTemplateException",
     "BlobOptionFormatException", "BlobBuildException", "KeyError"}

\* The classes an exception is an instance of: each Blob...Exception derives
\* from BlobException.
InstanceOf(e) ==
    IF e \in {"BlobException", "BlobArgumentException", "BlobTemplateException",
              "BlobOptionFormatException", "BlobBuildException"}
    THEN {e, "BlobException"}
    ELSE {e}

\* What a call on a collaborator does: it returns ("none") or raises.
Outcomes == {"none"} \cup Exceptions

Call(fn, sel, scope, e) == [fn |-> fn, sel |-> sel, scope |-> scope, ok |-> e = "none"]

\* get_modules, lines 22-23: no selection means every module.
DefaultSelection(selected_modules) ==
    IF selected_modules.t = "none" THEN ListV(<<":**">>) ELSE selected_modules

\* is_repository_option taking every name of two segments or more for a
\* repository option.
is_repository_option_AtLeastTwo(option_name) ==
    LET parts == Split(option_name, ":")
    IN IF Len(parts) < 2 THEN [err |-> "BlobOptionFormatException", val |-> FALSE]
       ELSE [err |-> "none", val |-> TRUE]

\* is_repository_option: err is the exception raised, val the value returned.
is_repository_option(option_name) ==
    LET parts == Split(option_name, ":")
    IN IF Len(parts) < 2 THEN [err |-> "BlobOptionFormatException", val |-> FALSE]
       ELSE IF Len(parts) = 2 THEN [err |-> "none", val |-> TRUE]
       ELSE [err |-> "none", val |-> FALSE]

\* main with the BlobException clause first.
ExitStatus_BlobExceptionFirst(e) ==
    IF "BlobException" \in InstanceOf(e) THEN 1
    ELSE IF "BlobArgumentException" \in InstanceOf(e) THEN 2
    ELSE IF "BlobTemplateException" \in InstanceOf(e) THEN 3
    ELSE 1

\* main's except clauses, tried in order; an exception none of them catches
\* ends the interpreter with a traceback and status 1.
ExitStatus(e) ==
    IF "BlobArgumentException" \in InstanceOf(e) THEN 2
    ELSE IF "BlobTemplateException" \in InstanceOf(e) THEN 3
    ELSE IF "BlobException" \in InstanceOf(e) THEN 1
    ELSE 1

\* run writing the log whatever --no-log says.
WritesLog_Always(a) == TRUE

\* run, line 211: the log is written unless --no-log was given.
WritesLog(a) == a.buildlog

\* run, lines 212-213.
LogFileName(a) == a.config \o <<".", "l", "o", "g">>

(***************************************************************************)
(* The command lines and configurations the driver is run on.              *)
(***************************************************************************)
ConfigFiles == {<<"p", ".", "x", "m", "l">>}

ModuleSelections == {<<>>, <<"repo1:module1">>}

CliOptionNames ==
    {<<>>, <<"f", "o", "o">>, <<"r", ":", "f">>, <<":", "f">>, <<"r", ":", "m", ":", "f">>,
     <<":", ":", "f">>, <<"r", ":", "m", ":", "s", ":", "f">>}

\* argparse: -m belongs to discover-module-options and build, -o (required) to
\* the two discover-option commands, --no-log to build.
ArgSpace ==
    {a \in [action : Actions, config : ConfigFiles, modules : ModuleSelections,
            option_name : CliOptionNames, buildlog : BOOLEAN] :
        /\ a.action \notin {"discover-module-options", "options", "build"} => a.modules = <<>>
        /\ a.action \notin {"discover-option", "option", "discover-option-values", "option-values"}
               => a.option_name = <<>>
        /\ a.action # "build" => a.buildlog}

NoArgs ==
    [action |-> "None", config |-> <<>>, modules |-> <<>>, option_name |-> <<>>, buildlog |-> TRUE]

\* The configuration: declared is the selection the file holds, selected_modules
\* the list run() goes on to extend.
NoConfig == [declared |-> <<>>, selected_modules |-> <<>>]

NoFrame == [selected_modules |-> None, ret |-> "none"]

MainIdle ==
    /\ pc = "idle"
    /\ args = NoArgs
    /\ config = NoConfig
    /\ frame = NoFrame
    /\ calls = <<>>
    /\ logfiles = <<>>
    /\ exc = "none"
    /\ exitCode = -1

OptionIdle == opt = NoOption /\ lastOp = NoOp

\* No build is running.
BuildIdle ==
    /\ buildlist = <<>>
    /\ buildpos = [module |-> 0, step |-> 0]
    /\ buildlog = <<>>
    /\ buildexc = "idle"

OptionInit == OptionIdle /\ MainIdle /\ BuildIdle

OptionNext ==
    \/ NewOption
    \/ NewBooleanOption
    \/ NewNumericOption
    \/ NewEnumerationOption
    \/ SetOption
    \/ SetBooleanOption
    \/ SetNumericOption
    \/ SetEnumerationOption

OptionSpec == OptionInit /\ [][OptionNext]_vars

FormatNext ==
    \/ NewOption
    \/ NewBooleanOption
    \/ NewNumericOption
    \/ NewEnumerationOption
    \/ Repository_add_option
    \/ Module_add_option
    \/ AssignValue
    \/ Format

FormatSpec == OptionInit /\ [][FormatNext]_vars

(***************************************************************************)
(* main(), run() and get_modules(), one action per call they make.         *)
(***************************************************************************)
\* main, lines 224-229: the command line is parsed and run(args) entered.
MainInit ==
    /\ OptionIdle
    /\ BuildIdle
    /\ pc = "parse_configuration"
    /\ args \in ArgSpace
    /\ config = NoConfig
    /\ frame = NoFrame
    /\ calls = <<>>
    /\ logfiles = <<>>
    /\ exc = "none"
    /\ exitCode = -1

\* run, line 145
ParseConfiguration ==
    /\ pc = "parse_configuration"
    /\ \E e \in Outcomes, declared \in ModuleSelections :
        /\ calls' = Append(calls, Call("parse_configuration", <<>>, "", e))
        /\ config' = IF e = "none" THEN [declared |-> declared, selected_modules |-> declared]
                     ELSE config
        /\ pc' = IF e = "none" THEN "dispatch" ELSE "except"
        /\ exc' = e
    /\ UNCHANGED <<buildVars, opt, lastOp, args, frame, logfiles, exitCode>>

\* run, lines 147-148
VcsInitialize ==
    /\ pc = "dispatch"
    /\ args.action = "init"
    /\ \E e \in Outcomes :
        /\ calls' = Append(calls, Call("initialize", <<>>, "", e))
        /\ pc' = IF e = "none" THEN "return" ELSE "except"
        /\ exc' = e
    /\ UNCHANGED <<buildVars, opt, lastOp, args, config, frame, logfiles, exitCode>>

\* run, lines 149-150
VcsUpdate ==
    /\ pc = "dispatch"
    /\ args.action = "update"
    /\ \E e \in Outcomes :
        /\ calls' = Append(calls, Call("update", <<>>, "", e))
        /\ pc' = IF e = "none" THEN "return" ELSE "except"
        /\ exc' = e
    /\ UNCHANGED <<buildVars, opt, lastOp, args, config, frame, logfiles, exitCode>>

\* run, lines 152-153
LoadRepositories ==
    /\ pc = "dispatch"
    /\ args.action \notin {"init", "update"}
    /\ \E e \in Outcomes :
        /\ calls' = Append(calls, Call("load_repositories", <<>>, "", e))
        /\ pc' = IF e = "none" THEN "format_commandline_options" ELSE "except"
        /\ exc' = e
    /\ UNCHANGED <<buildVars, opt, lastOp, args, config, frame, logfiles, exitCode>>

\* run, line 155
FormatCommandlineOptions ==
    /\ pc = "format_commandline_options"
    /\ \E e \in Outcomes :
        /\ calls' = Append(calls, Call("format_commandline_options", <<>>, "", e))
        /\ pc' = IF e = "none" THEN "merge_repository_options" ELSE "except"
        /\ exc' = e
    /\ UNCHANGED <<buildVars, opt, lastOp, args, config, frame, logfiles, exitCode>>

\* run, line 156
MergeRepositoryOptions ==
    /\ pc = "merge_repository_options"
    /\ \E e \in Outcomes :
        /\ calls' = Append(calls, Call("merge_repository_options", <<>>, "", e))
        /\ pc' = IF e = "none" THEN "action" ELSE "except"
        /\ exc' = e
    /\ UNCHANGED <<buildVars, opt, lastOp, args, config, frame, logfiles, exitCode>>

\* run, lines 158-160: the repository options are printed.
DiscoverRepository ==
    /\ pc = "action"
    /\ args.action \in {"discover-repository", "repo"}
    /\ pc' = "return"
    /\ UNCHANGED <<buildVars, opt, lastOp, args, config, frame, calls, logfiles, exc, exitCode>>

\* run, lines 161-164
DiscoverModules ==
    /\ pc = "action"
    /\ args.action \in {"discover-modules", "modules"}
    /\ \E e \in Outcomes :
        /\ calls' = Append(calls, Call("prepare_repositories", <<>>, "", e))
        /\ pc' = IF e = "none" THEN "return" ELSE "except"
        /\ exc' = e
    /\ UNCHANGED <<buildVars, opt, lastOp, args, config, frame, logfiles, exitCode>>

\* run, lines 165-166
Dependencies ==
    /\ pc = "action"
    /\ args.action \in {"dependencies"}
    /\ \E e \in Outcomes :
        /\ calls' = Append(calls, Call("prepare_repositories", <<>>, "", e))
        /\ pc' = IF e = "none" THEN "graphviz" ELSE "except"
        /\ exc' = e
    /\ UNCHANGED <<buildVars, opt, lastOp, args, config, frame, logfiles, exitCode>>

\* run, lines 167-169
Graphviz ==
    /\ pc = "graphviz"
    /\ \E e \in Outcomes :
        /\ calls' = Append(calls, Call("graphviz", <<>>, "", e))
        /\ pc' = IF e = "none" THEN "return" ELSE "except"
        /\ exc' = e
    /\ UNCHANGED <<buildVars, opt, lastOp, args, config, frame, logfiles, exitCode>>

\* run, lines 170-175: the selection is completed and get_modules entered.
DiscoverModuleOptions ==
    /\ pc = "action"
    /\ args.action \in {"discover-module-options", "options"}
    /\ config' = [config EXCEPT !.selected_modules =
                      IF Len(args.modules) = 0 /\ Len(config.selected_modules) = 0
                      THEN config.selected_modules \o <<":**">>
                      ELSE config.selected_modules \o args.modules]
    /\ frame' = [selected_modules |-> ListV(config'.selected_modules), ret |-> "print_options"]
    /\ pc' = "get_modules"
    /\ UNCHANGED <<buildVars, opt, lastOp, args, calls, logfiles, exc, exitCode>>

\* run, lines 177-183: the module options are printed.
PrintModuleOptions ==
    /\ pc = "print_options"
    /\ pc' = "return"
    /\ UNCHANGED <<buildVars, opt, lastOp, args, config, frame, calls, logfiles, exc, exitCode>>

\* run, lines 184-189: a repository option is looked up at once, for any other
\* get_modules is entered without a selection.
DiscoverOption ==
    /\ pc = "action"
    /\ args.action \in {"discover-option", "option"}
    /\ LET r == is_repository_option(args.option_name)
       IN IF r.err # "none"
          THEN /\ pc' = "except"
               /\ exc' = r.err
               /\ UNCHANGED <<calls, frame>>
          ELSE IF r.val
          THEN \E e \in Outcomes :
                  /\ calls' = Append(calls, Call("find_module", <<>>, "repo_options", e))
                  /\ pc' = IF e = "none" THEN "return" ELSE "except"
                  /\ exc' = e
                  /\ UNCHANGED frame
          ELSE /\ frame' = [selected_modules |-> None, ret |-> "find_option"]
               /\ pc' = "get_modules"
               /\ UNCHANGED <<calls, exc>>
    /\ UNCHANGED <<buildVars, opt, lastOp, args, config, logfiles, exitCode>>

\* run, lines 194-199
DiscoverOptionValues ==
    /\ pc = "action"
    /\ args.action \in {"discover-option-values", "option-values"}
    /\ LET r == is_repository_option(args.option_name)
       IN IF r.err # "none"
          THEN /\ pc' = "except"
               /\ exc' = r.err
               /\ UNCHANGED <<calls, frame>>
          ELSE IF r.val
          THEN \E e \in Outcomes :
                  /\ calls' = Append(calls, Call("find_module", <<>>, "repo_options", e))
                  /\ pc' = IF e = "none" THEN "return" ELSE "except"
                  /\ exc' = e
                  /\ UNCHANGED frame
          ELSE /\ frame' = [selected_modules |-> None, ret |-> "find_option"]
               /\ pc' = "get_modules"
               /\ UNCHANGED <<calls, exc>>
    /\ UNCHANGED <<buildVars, opt, lastOp, args, config, logfiles, exitCode>>

\* run, lines 190-193 and 200-203: the option is looked up in the module
\* options and printed.
FindModuleOption ==
    /\ pc = "find_option"
    /\ \E e \in Outcomes :
        /\ calls' = Append(calls, Call("find_module", <<>>, "module_options", e))
        /\ pc' = IF e = "none" THEN "return" ELSE "except"
        /\ exc' = e
    /\ UNCHANGED <<buildVars, opt, lastOp, args, config, frame, logfiles, exitCode>>

\* run, lines 204-208: the selection is extended by -m and get_modules entered.
Build ==
    /\ pc = "action"
    /\ args.action = "build"
    /\ config' = [config EXCEPT !.selected_modules = config.selected_modules \o args.modules]
    /\ frame' = [selected_modules |-> ListV(config'.selected_modules), ret |-> "build_modules"]
    /\ pc' = "get_modules"
    /\ UNCHANGED <<buildVars, opt, lastOp, args, calls, logfiles, exc, exitCode>>

\* run, line 209
BuildModules ==
    /\ pc = "build_modules"
    /\ \E e \in Outcomes :
        /\ calls' = Append(calls, Call("build_modules", <<>>, "", e))
        /\ pc' = IF e = "none" THEN "write_log" ELSE "except"
        /\ exc' = e
    /\ UNCHANGED <<buildVars, opt, lastOp, args, config, frame, logfiles, exitCode>>

\* run, lines 211-215
WriteLog ==
    /\ pc = "write_log"
    /\ logfiles' = IF WritesLog(args) THEN Append(logfiles, LogFileName(args)) ELSE logfiles
    /\ pc' = "return"
    /\ UNCHANGED <<buildVars, opt, lastOp, args, config, frame, calls, exc, exitCode>>

\* run, lines 216-218
UnknownAction ==
    /\ pc = "action"
    /\ args.action \notin
           {"discover-repository", "repo", "discover-modules", "modules", "dependencies",
            "discover-module-options", "options", "discover-option", "option",
            "discover-option-values", "option-values", "build"}
    /\ pc' = "except"
    /\ exc' = "BlobArgumentException"
    /\ UNCHANGED <<buildVars, opt, lastOp, args, config, frame, calls, logfiles, exitCode>>

\* get_modules going on to resolve_dependencies although prepare_repositories
\* raised.
PrepareRepositories_ErrorIgnored ==
    /\ pc = "get_modules"
    /\ frame' = [frame EXCEPT !.selected_modules = DefaultSelection(frame.selected_modules)]
    /\ \E e \in Outcomes :
        /\ calls' = Append(calls, Call("prepare_repositories", <<>>, "", e))
        /\ pc' = "resolve_dependencies"
        /\ exc' = e
    /\ UNCHANGED <<buildVars, opt, lastOp, args, config, logfiles, exitCode>>

\* get_modules, lines 22-24
PrepareRepositories ==
    /\ pc = "get_modules"
    /\ frame' = [frame EXCEPT !.selected_modules = DefaultSelection(frame.selected_modules)]
    /\ \E e \in Outcomes :
        /\ calls' = Append(calls, Call("prepare_repositories", <<>>, "", e))
        /\ pc' = IF e = "none" THEN "resolve_dependencies" ELSE "except"
        /\ exc' = e
    /\ UNCHANGED <<buildVars, opt, lastOp, args, config, logfiles, exitCode>>

\* get_modules, line 25
ResolveDependencies ==
    /\ pc = "resolve_dependencies"
    /\ \E e \in Outcomes :
        /\ calls' = Append(calls, Call("resolve_dependencies", frame.selected_modules.l, "", e))
        /\ pc' = IF e = "none" THEN "merge_module_options" ELSE "except"
        /\ exc' = e
    /\ UNCHANGED <<buildVars, opt, lastOp, args, config, frame, logfiles, exitCode>>

\* get_modules, lines 26-28
MergeModuleOptions ==
    /\ pc = "merge_module_options"
    /\ \E e \in Outcomes :
        /\ calls' = Append(calls, Call("merge_module_options", <<>>, "", e))
        /\ pc' = IF e = "none" THEN frame.ret ELSE "except"
        /\ exc' = e
    /\ UNCHANGED <<buildVars, opt, lastOp, args, config, frame, logfiles, exitCode>>

\* main, line 229: run() returned.
MainReturn ==
    /\ pc = "return"
    /\ pc' = "exit"
    /\ exitCode' = 0
    /\ UNCHANGED <<buildVars, opt, lastOp, args, config, frame, calls, logfiles, exc>>

\* main, lines 230-242: run() raised.
MainExcept ==
    /\ pc = "except"
    /\ pc' = "exit"
    /\ exitCode' = ExitStatus(exc)
    /\ UNCHANGED <<buildVars, opt, lastOp, args, config, frame, calls, logfiles, exc>>

MainNext ==
    \/ ParseConfiguration
    \/ VcsInitialize
    \/ VcsUpdate
    \/ LoadRepositories
    \/ FormatCommandlineOptions
    \/ MergeRepositoryOptions
    \/ DiscoverRepository
    \/ DiscoverModules
    \/ Dependencies
    \/ Graphviz
    \/ DiscoverModuleOptions
    \/ PrintModuleOptions
    \/ DiscoverOption
    \/ DiscoverOptionValues
    \/ FindModuleOption
    \/ Build
    \/ BuildModules
    \/ WriteLog
    \/ UnknownAction
    \/ PrepareRepositories
    \/ ResolveDependencies
    \/ MergeModuleOptions
    \/ MainReturn
    \/ MainExcept

MainSpec == MainInit /\ [][MainNext]_vars

(***************************************************************************)
(* Parser.build_modules and the build log.                                 *)
(***************************************************************************)
\* The modules of the repository.
Modules == {"repo:a", "repo:b", "repo:c", "repo:d", "repo:e"}

\* The build function of each module: the operations it makes on its
\* environment, each with the output paths it writes.  A template writes one
\* file, a copy of a directory tree every file of the tree.  repo:a and repo:b
\* write the same file; repo:d writes a file the tree of repo:c holds.
ModuleBuild ==
    [m \in Modules |->
        CASE m = "repo:a" -> <<[op |-> "template", src |-> "x.cpp.in", paths |-> <<"src/x.cpp">>]>>
          [] m = "repo:b" -> <<[op |-> "template", src |-> "b.cpp.in", paths |-> <<"src/b.cpp">>],
                               [op |-> "template", src |-> "x.cpp.in", paths |-> <<"src/x.cpp">>]>>
          [] m = "repo:c" -> <<[op |-> "copy", src |-> "tree",
                                paths |-> <<"src/tree/y.hpp", "src/tree/z.hpp">>]>>
          [] m = "repo:d" -> <<[op |-> "template", src |-> "z.hpp.in", paths |-> <<"src/tree/z.hpp">>]>>
          [] m = "repo:e" -> <<[op |-> "copy", src |-> "test", paths |-> <<"test/e.cpp">>],
                               [op |-> "template", src |-> "e.cpp.in", paths |-> <<"src/e.cpp">>]>>]

\* The ordered build lists: up to MaxBuild modules, none twice.
BuildLists ==
    {l \in UNION {[1..n -> Modules] : n \in 1..MaxBuild} :
        \A i, j \in 1..Len(l) : l[i] = l[j] => i = j}

\* BuildLog.log overwriting the entry of a path already logged.
BuildLog_log_Overwrite(log, module, template, path) ==
    [err |-> "none",
     log |-> Append(SelectSeq(log, LAMBDA e : e.path # path),
                    [path |-> path, module |-> module, template |-> template])]

\* BuildLog.log: a path already in the log is a conflict, any other path gets
\* an entry at the end of the log.
BuildLog_log(log, module, template, path) ==
    IF \E i \in 1..Len(log) : log[i].path = path
    THEN [err |-> "BlobBuildException", log |-> log]
    ELSE [err |-> "none",
          log |-> Append(log, [path |-> path, module |-> module, template |-> template])]

\* The files of one operation logged one after the other, up to the first
\* conflict.
RECURSIVE LogFiles(_, _, _, _)
LogFiles(log, module, template, paths) ==
    IF paths = <<>> THEN [err |-> "none", log |-> log]
    ELSE LET r == BuildLog_log(log, module, template, Head(paths))
         IN IF r.err # "none" THEN r
            ELSE LogFiles(r.log, module, template, Tail(paths))

\* The module being built and the operation its build function is at.
CurrentModule == buildlist[buildpos.module]
CurrentOperation == ModuleBuild[CurrentModule][buildpos.step]

InModule ==
    /\ buildexc = "running"
    /\ buildpos.module <= Len(buildlist)
    /\ buildpos.step <= Len(ModuleBuild[CurrentModule])

\* build_modules is called with a build list and an empty log.
BuildInit ==
    /\ OptionIdle
    /\ MainIdle
    /\ buildlist \in BuildLists
    /\ buildpos = [module |-> 1, step |-> 1]
    /\ buildlog = <<>>
    /\ buildexc = "running"

\* env.template(src, dest) in a module's build function.
EnvTemplate ==
    /\ InModule
    /\ CurrentOperation.op = "template"
    /\ LET r == LogFiles(buildlog, CurrentModule, CurrentOperation.src, CurrentOperation.paths)
       IN /\ buildlog' = r.log
          /\ buildexc' = IF r.err = "none" THEN buildexc ELSE r.err
          /\ buildpos' = IF r.err = "none" THEN [buildpos EXCEPT !.step = @ + 1] ELSE buildpos
    /\ UNCHANGED <<optVars, mainVars, buildlist>>

\* env.copy(src, dest) of a directory tree in a module's build function.
EnvCopy ==
    /\ InModule
    /\ CurrentOperation.op = "copy"
    /\ LET r == LogFiles(buildlog, CurrentModule, CurrentOperation.src, CurrentOperation.paths)
       IN /\ buildlog' = r.log
          /\ buildexc' = IF r.err = "none" THEN buildexc ELSE r.err
          /\ buildpos' = IF r.err = "none" THEN [buildpos EXCEPT !.step = @ + 1] ELSE buildpos
    /\ UNCHANGED <<optVars, mainVars, buildlist>>

\* The build function of a module returned: the next module is built.
ModuleBuilt ==
    /\ buildexc = "running"
    /\ buildpos.module <= Len(buildlist)
    /\ buildpos.step > Len(ModuleBuild[CurrentModule])
    /\ buildpos' = [module |-> buildpos.module + 1, step |-> 1]
    /\ UNCHANGED <<optVars, mainVars, buildlist, buildlog, buildexc>>

\* build_modules returns after the last module.
BuildReturn ==
    /\ buildexc = "running"
    /\ buildpos.module > Len(buildlist)
    /\ buildexc' = "none"
    /\ UNCHANGED <<optVars, mainVars, buildlist, buildpos, buildlog>>

BuildNext ==
    \/ EnvTemplate
    \/ EnvCopy
    \/ ModuleBuilt
    \/ BuildReturn

BuildSpec == BuildInit /\ [][BuildNext]_vars

(***************************************************************************)
(* Properties of the options.                                              *)
(***************************************************************************)
TypedKinds == {"BooleanOption", "NumericOption", "EnumerationOption"}

\* The literals a boolean option takes as true and as false, in any case.
TrueLiterals == UNION {CaseVariants(w) : w \in {<<"t", "r", "u", "e">>, <<"y", "e", "s">>, <<"1">>}}
FalseLiterals == UNION {CaseVariants(w) : w \in {<<"f", "a", "l", "s", "e">>, <<"n", "o">>, <<"0">>}}

DeclaredNames(o) == {o._enumeration[i].name : i \in 1..Len(o._enumeration)}

\* The enumeration's values are unique: no name is an alias of another.
UniqueValues(o) ==
    \A i, j \in 1..Len(o._enumeration) :
        o._enumeration[i].value = o._enumeration[j].value => i = j

BelowMinimum(o, n) == o.minimum.t = "int" /\ n < o.minimum.i
AboveMaximum(o, n) == o.maximum.t = "int" /\ n > o.maximum.i

\* The value v lies outside the declared value-space of the option o.
OutsideValueSpace(o, v) ==
    CASE o.kind = "BooleanOption" ->
            v.t = "str" /\ v.s \notin TrueLiterals \cup FalseLiterals
      [] o.kind = "NumericOption" ->
            \/ v.t = "int" /\ (BelowMinimum(o, v.i) \/ AboveMaximum(o, v.i))
            \/ v.t = "str" /\ v.s \in NonLiterals
      [] o.kind = "EnumerationOption" ->
            v.t = "str" /\ v.s \notin DeclaredNames(o)
      [] OTHER -> FALSE

\* The current value of the option o is unset or inside its value-space.
CurrentValueInSpace(o) ==
    CASE o.kind = "BooleanOption" -> o._value.t \in {"none", "bool"}
      [] o.kind = "NumericOption" ->
            o._value.t = "int" => ~BelowMinimum(o, o._value.i) /\ ~AboveMaximum(o, o._value.i)
      [] o.kind = "EnumerationOption" ->
            o._value.t = "member" => o._value.name \in DeclaredNames(o)
      [] OTHER -> TRUE

\* C1: for every typed option and after any sequence of assignments, an
\* assignment of a value outside the declared value-space signals an error and
\* leaves the current value as it was, so the current value is always inside
\* the declared value-space.
C1_InvalidInputNeverStored ==
    /\ (lastOp.op = "set" /\ lastOp.kind \in TypedKinds /\ OutsideValueSpace(opt, lastOp.arg))
           => (lastOp.err # "none" /\ lastOp.after = lastOp.before)
    /\ CurrentValueInSpace(opt)

\* C2: on a numeric option with a declared minimum and maximum, assigning a
\* value below the minimum or above the maximum fails and stores nothing, and
\* assigning exactly the minimum or the maximum succeeds and stores it.
C2_NumericBoundsEnforced ==
    (/\ lastOp.op = "set"
     /\ lastOp.kind = "NumericOption"
     /\ opt.minimum.t = "int"
     /\ opt.maximum.t = "int"
     /\ lastOp.arg.t = "int")
        => /\ (lastOp.arg.i < opt.minimum.i \/ lastOp.arg.i > opt.maximum.i)
                  => (lastOp.err # "none" /\ lastOp.after = lastOp.before)
           /\ lastOp.arg.i \in {opt.minimum.i, opt.maximum.i}
                  => (lastOp.err = "none" /\ lastOp.after = lastOp.arg)

\* C3: assigning to a boolean option a literal that reads true, yes or 1 in
\* any letter case stores True, one that reads false, no or 0 stores False,
\* and any other literal fails with the value error and stores nothing.
C3_BooleanLiterals ==
    (lastOp.op = "set" /\ lastOp.kind = "BooleanOption" /\ lastOp.arg.t \in {"str", "int"})
        => LET text == IF lastOp.arg.t = "int" THEN Dec(lastOp.arg.i) ELSE lastOp.arg.s
           IN /\ text \in TrueLiterals
                    => (lastOp.err = "none" /\ lastOp.after = BoolV(TRUE))
              /\ text \in FalseLiterals
                    => (lastOp.err = "none" /\ lastOp.after = BoolV(FALSE))
              /\ text \notin TrueLiterals \cup FalseLiterals
                    => (lastOp.err = "BlobException" /\ lastOp.after = lastOp.before)

\* C3 witness: a mixed-case literal turned a False option True, and a literal
\* outside both lists is about to be refused.
C3_Witness ==
    /\ lastOp.op = "set"
    /\ lastOp.kind = "BooleanOption"
    /\ lastOp.arg = StrV(<<"Y", "e", "S">>)
    /\ lastOp.before = BoolV(FALSE)
    /\ opt._value = BoolV(TRUE)

IsSortedNames(names) ==
    \A i \in 1..(Len(names) - 1) : StrLess(names[i], names[i + 1])

\* C4: for every enumeration option (of unique values), values is exactly the
\* declared names in ascending order, whatever the declaration order and the
\* assignments made, and assigning an undeclared name fails with an exception
\* of the BlobException family and leaves the value unchanged.
C4_EnumerationValuesAndError ==
    (opt.kind = "EnumerationOption" /\ UniqueValues(opt))
        => /\ LET values == EnumerationOption_values(opt)
              IN /\ IsSortedNames(values)
                 /\ {values[i] : i \in 1..Len(values)} = DeclaredNames(opt)
                 /\ Len(values) = Cardinality(DeclaredNames(opt))
           /\ (lastOp.op = "set" /\ lastOp.arg.t = "str" /\ lastOp.arg.s \notin DeclaredNames(opt))
                  => /\ "BlobException" \in InstanceOf(lastOp.err)
                     /\ lastOp.after = lastOp.before

\* C10: on a numeric option every hexadecimal, octal and binary literal of an
\* integer parses to that integer, as the decimal literal of the integer does,
\* and text that is no integer literal fails with the value error.
C10_PrefixedLiteralsParse ==
    (lastOp.op = "set" /\ lastOp.kind = "NumericOption" /\ lastOp.arg.t = "str")
        => /\ \A n \in 0..MaxNum :
                lastOp.arg.s \in PrefixedLiterals(n) \cup {Dec(n)}
                    => /\ as_numeric_value(lastOp.arg) = Returned(IntV(n))
                       /\ as_numeric_value(StrV(Dec(n))) = Returned(IntV(n))
                       /\ lastOp.err = "none"
                       /\ lastOp.after = IntV(n)
           /\ lastOp.arg.s \in NonLiterals
                  => (lastOp.err = "BlobException" /\ lastOp.after = lastOp.before)

\* C10 witness: an upper-case hexadecimal literal was stored as the integer 10
\* over a different value.
C10_Witness ==
    /\ lastOp.op = "set"
    /\ lastOp.kind = "NumericOption"
    /\ lastOp.arg = StrV(<<"0", "X", "A">>)
    /\ lastOp.before = IntV(3)
    /\ opt._value = IntV(10)

(***************************************************************************)
(* Properties of the driver.                                               *)
(***************************************************************************)
\* C5: when no module selector is supplied, neither in the configuration nor
\* by -m, every call of resolve_dependencies is handed the selector ":**", in
\* a build too.
C5_NoSelectorMeansWildcard ==
    (args.modules = <<>> /\ config.declared = <<>>)
        => \A i \in 1..Len(calls) :
               calls[i].fn = "resolve_dependencies" => calls[i].sel = <<":**">>

\* C6: main ends with status 2 when run() raises an argument exception, 3 when
\* it raises a template exception, 1 when it raises any other BlobException
\* and 0 when it raises nothing.
C6_ExitCodes ==
    pc = "exit"
        => /\ exc = "none" => exitCode = 0
           /\ exc = "BlobArgumentException" => exitCode = 2
           /\ exc = "BlobTemplateException" => exitCode = 3
           /\ exc \in {"BlobException", "BlobOptionFormatException", "BlobBuildException"}
                  => exitCode = 1
           /\ exitCode \in 0..3

\* C6 witness: build_modules raised a template exception and main ended with 3.
C6_Witness ==
    /\ pc = "exit"
    /\ exc = "BlobTemplateException"
    /\ exitCode = 3
    /\ calls[Len(calls)].fn = "build_modules"

ResolutionOrder ==
    <<"load_repositories", "merge_repository_options", "prepare_repositories",
      "resolve_dependencies", "merge_module_options", "build_modules">>

\* The resolution steps among the calls made, in the order they were made.
ResolutionSteps ==
    SelectSeq(calls, LAMBDA c : \E k \in 1..Len(ResolutionOrder) : ResolutionOrder[k] = c.fn)

\* C7: for every action but init and update the resolution steps made are, in
\* this order, load_repositories, merge_repository_options,
\* prepare_repositories, resolve_dependencies, merge_module_options and
\* build_modules; none runs unless every earlier one returned, and
\* build_modules runs in a build only.
C7_ResolutionOrder ==
    /\ Len(ResolutionSteps) <= Len(ResolutionOrder)
    /\ \A i \in 1..Len(ResolutionSteps) :
          /\ ResolutionSteps[i].fn = ResolutionOrder[i]
          /\ i < Len(ResolutionSteps) => ResolutionSteps[i].ok
          /\ ResolutionSteps[i].fn = "build_modules" => args.action = "build"
    /\ args.action \in {"init", "update"} => ResolutionSteps = <<>>
    /\ (pc = "exit" /\ exitCode = 0 /\ args.action = "build")
           => Len(ResolutionSteps) = Len(ResolutionOrder)

\* C7 witness: a build went through all six steps and ended normally.
C7_Witness ==
    /\ pc = "exit"
    /\ exitCode = 0
    /\ args.action = "build"
    /\ Len(ResolutionSteps) = 6
    /\ ResolutionSteps[6].fn = "build_modules"

\* C8: the build log, named after the configuration file with ".log" appended,
\* is written at most once, in a build only and only after build_modules has
\* returned; none is written when a call raised or --no-log was given.
C8_LogWrittenOnceAfterBuild ==
    /\ Len(logfiles) <= 1
    /\ logfiles # <<>>
           => /\ args.action = "build"
              /\ args.buildlog
              /\ logfiles[1] = args.config \o <<".", "l", "o", "g">>
              /\ calls # <<>>
              /\ calls[Len(calls)].fn = "build_modules"
              /\ \A i \in 1..Len(calls) : calls[i].ok
    /\ (exc # "none" \/ ~args.buildlog) => logfiles = <<>>
    /\ (pc = "exit" /\ exitCode = 0 /\ args.action = "build" /\ args.buildlog)
           => Len(logfiles) = 1

\* C8 witness: a build ended with its log written beside the configuration file.
C8_Witness ==
    /\ pc = "exit"
    /\ args.action = "build"
    /\ logfiles = <<<<"p", ".", "x", "m", "l", ".", "l", "o", "g">>>>

NumColons(name) == Cardinality({i \in 1..Len(name) : name[i] = ":"})

\* run() has entered the branch of the action: the four calls before it
\* returned.
ActionEntered == pc # "action" /\ Len(calls) >= 4 /\ calls[4].ok

\* C9: is_repository_option is True exactly for a name of two segments, False
\* for three or more, and raises the option format error for a name without
\* colon; so the discover-option actions look a two-segment name up in the
\* repository options and a longer one in the module options.
C9_RepositoryOptionNames ==
    (args.action \in {"discover-option", "option", "discover-option-values", "option-values"}
     /\ ActionEntered)
        => LET k == NumColons(args.option_name)
           IN /\ k = 0 => (exc = "BlobOptionFormatException" /\ Len(calls) = 4)
              /\ k = 1 => /\ Len(calls) = 5
                          /\ calls[5].fn = "find_module"
                          /\ calls[5].scope = "repo_options"
              /\ k >= 2 => /\ frame.ret = "find_option"
                           /\ Len(calls) >= 5 => calls[5].fn = "prepare_repositories"
                           /\ \A i \in 1..Len(calls) :
                                 calls[i].fn = "find_module" => calls[i].scope = "module_options"
                           /\ (pc = "exit" /\ exitCode = 0)
                                 => calls[Len(calls)].fn = "find_module"

\* C9 witness: an option name of four segments was looked up in the module
\* options.
C9_Witness ==
    /\ args.action = "option"
    /\ NumColons(args.option_name) = 3
    /\ pc = "exit"
    /\ calls[Len(calls)].fn = "find_module"
    /\ calls[Len(calls)].scope = "module_options"
    /\ calls[Len(calls)].ok

(***************************************************************************)
(* Properties of option names and of the formatted line.                   *)
(***************************************************************************)
HasColon(name) == \E i \in 1..Len(name) : name[i] = ":"

\* C12: constructing an option of any kind with a name that contains ':' fails
\* with an error and yields no option; so every option that exists has a name
\* without colon, and the last colon-delimited segment of its fullname is its
\* name.
C12_ColonFreeNames ==
    /\ (lastOp.op = "init" /\ HasColon(lastOp.ctor.name))
           => (lastOp.err = "BlobException" /\ opt.kind = "NoOption")
    /\ opt.kind # "NoOption"
           => /\ ~HasColon(opt.name)
              /\ LET segments == Split(Option_fullname(opt), ":")
                 IN segments[Len(segments)] = opt.name

\* C12 witness: an enumeration option of a submodule, its fullname of five
\* segments ending in its name.
C12_Witness ==
    /\ opt.kind = "EnumerationOption"
    /\ opt.name = <<"f", "o", "o">>
    /\ opt.module = StrV(<<"r", "e", "p", "o", "1", ":", "m", "o", "d", "u", "l", "e", "2", ":", "s", "u", "b", "m", "o", "d", "u", "l", "e", "3", ":", "s", "u", "b", "s", "u", "b", "m", "o", "d", "u", "l", "e", "1">>)
    /\ Option_fullname(opt) = <<"r", "e", "p", "o", "1", ":", "m", "o", "d", "u", "l", "e", "2", ":", "s", "u", "b", "m", "o", "d", "u", "l", "e", "3", ":", "s", "u", "b", "s", "u", "b", "m", "o", "d", "u", "l", "e", "1">> \o <<":", "f", "o", "o">>

IsPrefix(p, s) == Len(p) <= Len(s) /\ SubSeq(s, 1, Len(p)) = p

\* C13: format() renders the value part if and only if the option is set: for
\* an unset option the line is the fullname, " = " and the bracketed hint with
\* no value, and for every set value, False and 0 included, it is the
\* fullname, " = ", the value, blanks and the bracketed hint.
C13_FormatValueIffSet ==
    lastOp.op = "format"
        => LET out == lastOp.after.s
               head == Option_fullname(opt) \o <<" ", "=", " ">>
               value == Option_value(opt)
               hint == values_hint(opt)
               valuePart == {IF value = None THEN <<>> ELSE StrOf(value) \o sep :
                                sep \in {<<" ">>, <<" ", " ">>}}
           IN /\ IsPrefix(head, out)
              /\ out[Len(out)] = "]"
              /\ (value = None) <=> IsPrefix(head \o <<"[">>, out)
              /\ \E v \in valuePart :
                    /\ IsPrefix(head \o v \o <<"[">>, out)
                    /\ Len(head) + Len(v) + Len(hint) + 2 <= LINEWITH
                           => out = head \o v \o <<"[">> \o hint \o <<"]">>

\* C13 witness: a boolean option of a module holding False was formatted with
\* its value.
C13_Witness ==
    /\ lastOp.op = "format"
    /\ opt.kind = "BooleanOption"
    /\ opt._value = BoolV(FALSE)
    /\ lastOp.after = StrV(<<"r", "e", "p", "o", "1", ":", "m", "o", "d", "u", "l", "e", "2", ":", "f", "o", "o", " ", "=", " ", "F", "a", "l", "s", "e", " ", " ", "[", "T", "r", "u", "e", ",", " ", "F", "a", "l", "s", "e", "]">>)

\* The list between the brackets of a formatted line.
ListedValues(out) ==
    LET open == CHOOSE i \in 1..Len(out) : out[i] = "[" /\ \A j \in 1..(i - 1) : out[j] # "["
    IN SubSeq(out, open + 1, Len(out) - 1)

\* C14: the line format() gives for a set enumeration option never exceeds
\* LINEWITH (120) characters: whenever the untruncated line would exceed it the
\* value list is cut, ends with " ..." and the cut list is a prefix of the full
\* list, whatever the lengths of fullname, value and value list.
C14_EnumerationLineWidth ==
    (lastOp.op = "format" /\ opt.kind = "EnumerationOption" /\ opt._value # None)
        => LET out == lastOp.after.s
               hint == EnumerationOption_values_hint(opt)
               untruncated == Option_fullname(opt) \o <<" ", "=", " ">>
                                  \o StrOf(EnumerationOption_value(opt)) \o <<" ", " ", "[">>
                                  \o hint \o <<"]">>
               listed == ListedValues(out)
               cut == SubSeq(listed, 1, Len(listed) - 4)
           IN /\ Len(out) <= LINEWITH
              /\ Len(untruncated) > LINEWITH
                     => /\ Len(listed) >= 4
                        /\ SubSeq(listed, Len(listed) - 3, Len(listed)) = <<" ", ".", ".", ".">>
                        /\ IsPrefix(cut, hint)
              /\ Len(untruncated) <= LINEWITH => out = untruncated

(***************************************************************************)
(* Properties of defaults and of the enumeration's value.                  *)
(***************************************************************************)
\* The constructor call without its default argument.
WithoutDefault(kind, c) ==
    CASE kind = "BooleanOption" -> BooleanOption_init(c.name, BoolV(FALSE))
      [] kind = "NumericOption" -> NumericOption_init(c.name, c.minimum, c.maximum, None)
      [] kind = "EnumerationOption" -> EnumerationOption_init(c.name, c.enumeration, None)

\* C15: for a boolean, numeric or enumeration option a default other than
\* None goes through the validation and canonicalization of an assignment: the
\* option constructed with default d is the option constructed without default
\* and then assigned d, a default outside the value-space makes the
\* construction fail, and a None default leaves the option unset.
C15_DefaultIsAssignment ==
    (lastOp.op = "init" /\ lastOp.kind \in TypedKinds)
        => LET b == WithoutDefault(lastOp.kind, lastOp.ctor)
               d == lastOp.arg
           IN /\ (d # None /\ b.err # "none") => (lastOp.err = b.err /\ opt = NoOption)
              /\ (d # None /\ b.err = "none")
                     => /\ lastOp.err = value_set(b.val, d).err
                        /\ lastOp.err = "none" => opt = value_set(b.val, d).val
                        /\ lastOp.err # "none" => opt = NoOption
                        /\ OutsideValueSpace(b.val, d) => (lastOp.err # "none" /\ opt = NoOption)
              /\ (d = None /\ lastOp.err = "none") => opt._value = None

\* The enumeration was built from a list or tuple of unique names: the value
\* of every member is its name.
FromNames(o) ==
    \A i \in 1..Len(o._enumeration) : o._enumeration[i].value = StrV(o._enumeration[i].name)

\* C16: on an enumeration option built from a list of unique names, assigning
\* a declared name n and reading value gives n; assigning the member itself
\* stores what assigning its name stores; and assigning the value just read
\* leaves the option as it was.
C16_EnumerationRoundTrip ==
    (lastOp.op = "set" /\ opt.kind = "EnumerationOption" /\ FromNames(opt))
        => /\ (lastOp.arg.t = "str" /\ lastOp.arg.s \in DeclaredNames(opt))
                  => /\ lastOp.err = "none"
                     /\ EnumerationOption_value(opt) = lastOp.arg
           /\ (\E i \in 1..Len(opt._enumeration) : opt._enumeration[i] = lastOp.arg)
                  => /\ lastOp.err = "none"
                     /\ opt._value = lastOp.arg
                     /\ EnumerationOption_set(opt, StrV(lastOp.arg.name)) = Returned(opt)
           /\ (lastOp.before # None /\ lastOp.arg = lastOp.before.value)
                  => (lastOp.err = "none" /\ lastOp.after = lastOp.before)
           /\ opt._value # None
                  => /\ EnumerationOption_value(opt) = StrV(opt._value.name)
                     /\ EnumerationOption_set(opt, EnumerationOption_value(opt)) = Returned(opt)

\* C16 witness: the member a was assigned over b and value reads "a".
C16_Witness ==
    /\ lastOp.op = "set"
    /\ opt.kind = "EnumerationOption"
    /\ FromNames(opt)
    /\ lastOp.arg = Member(<<"a">>, StrV(<<"a">>))
    /\ lastOp.before = Member(<<"b">>, StrV(<<"b">>))
    /\ EnumerationOption_value(opt) = StrV(<<"a">>)

(***************************************************************************)
(* Properties of the build.                                                *)
(***************************************************************************)
\* The output paths of a module, written directly or through a copied tree.
OutputPaths(m) ==
    UNION {{ModuleBuild[m][k].paths[i] : i \in 1..Len(ModuleBuild[m][k].paths)} :
              k \in 1..Len(ModuleBuild[m])}

\* Two modules of the build list write the same output path.
BuildConflict ==
    \E i, j \in 1..Len(buildlist) :
        i # j /\ OutputPaths(buildlist[i]) \cap OutputPaths(buildlist[j]) # {}

\* C11: in one build run over an ordered build list, build_modules fails with
\* BlobBuildException if two modules of the list write the same output path,
\* directly or through a copied tree, and succeeds if every output path is
\* written by a single module; the log then holds every output path once, under
\* the module that wrote it.
C11_BuildConflict ==
    /\ buildexc \in {"none", "BlobBuildException"}
           => (buildexc = "BlobBuildException" <=> BuildConflict)
    /\ \A i, j \in 1..Len(buildlog) : buildlog[i].path = buildlog[j].path => i = j
    /\ \A i \in 1..Len(buildlog) : buildlog[i].path \in OutputPaths(buildlog[i].module)
    /\ buildexc = "none"
           => {buildlog[i].path : i \in 1..Len(buildlog)}
                  = UNION {OutputPaths(buildlist[i]) : i \in 1..Len(buildlist)}

\* C11 witness: repo:d was built after repo:c and repo:e, and its template hit
\* a file of the tree repo:c had copied.
C11_Witness ==
    /\ buildlist = <<"repo:c", "repo:e", "repo:d">>
    /\ buildexc = "BlobBuildException"
    /\ Len(buildlog) = 4
    /\ buildlog[2] = [path |-> "src/tree/z.hpp", module |-> "repo:c", template |-> "tree"]

====
